---- MODULE Spec2Model ----
(***************************************************************************)
(* Model of the catalog population and lineage scripts:                    *)
(*   build_table_column_lineage.py        (the lineage pipeline)           *)
(*   build_connection_db_schema_columns.py (the hierarchy pipeline)        *)
(*                                                                         *)
(* Strings are sequences of tokens, so that str.lower(), f-string          *)
(* interpolation and str.replace() are computed and not assumed.  The      *)
(* catalog is the sequence of entities in the order of their creation; a   *)
(* search returns its matches in that order.  A save is an upsert on       *)
(* (type, qualified name): the catalog never holds two entities of one     *)
(* type under one qualified name.                                          *)
(***************************************************************************)
EXTENDS Integers, Sequences, FiniteSets, TLC

VARIABLES
    catalog,   \* the entities of the catalog, in the order of their creation
    csv,       \* the CSV files of the bucket (config.S3_OBJECT_NAMES and content)
    run,       \* per run: the position in main() and its local variables
    calls,     \* the save calls the run in progress has issued
    faults,    \* the failed catalog calls of the run in progress
    log,       \* what the run in progress has printed or logged about matching
    derived    \* calls of generate_process_id made apart from a run

vars == <<catalog, csv, run, calls, faults, log, derived>>

\* ---------------------------------------------------------------- bounds
\* Number of pipeline runs that are started one after the other.
MaxRuns == 2
\* Number of catalog calls of one run that may fail.
MaxFaults == 1

\* ------------------------------------------------------- program constants
PAGE_ONE == 1
PAGE_TABLES == 1000
PAGE_COLUMNS == 100

\* config.POSTGRES_CONNECTION_NAME, config.AWS_CONNECTION_NAME,
\* config.SNOWFLAKE_CONNECTION_NAME
POSTGRES_CONNECTION_NAME == <<"pg">>
AWS_CONNECTION_NAME == <<"s3">>
SNOWFLAKE_CONNECTION_NAME == <<"sf">>

ConnectionNameOf(k) ==
    CASE k = 1 -> POSTGRES_CONNECTION_NAME
      [] k = 2 -> AWS_CONNECTION_NAME
      [] OTHER -> SNOWFLAKE_CONNECTION_NAME

\* ----------------------------------------------------------------- strings
\* str.lower() on one token.
LowerTok(t) ==
    CASE t = "Orders" -> "orders"
      [] t = "ORDERS" -> "orders"
      [] t = "Users" -> "users"
      [] t = "ADDRESSES" -> "addresses"
      [] t = "ID" -> "id"
      [] t = "Id" -> "id"
      [] t = "S3" -> "s3"
      [] t = "DB" -> "db"
      [] OTHER -> t

\* str.lower() on a string.
Lower(s) == [i \in 1..Len(s) |-> LowerTok(s[i])]

\* None is the empty sequence; an f-string renders None as "None".
None == <<>>
Fmt(s) == IF s = None THEN <<"None">> ELSE s

\* hashlib.md5(x).hexdigest(), taken as injective: the digest of x is x
\* between two tokens that occur in no name.
Md5(x) == <<"md5(">> \o x \o <<")">>

\* The mutant of generate_process_id: an id drawn anew at every call (here
\* from the size of the catalog), not derived from the two qualified names.
generate_process_idPerCall(source_qualified_name, target_qualified_name) ==
    Md5(<<ToString(Len(catalog))>>)

\* generate_process_id(), lines 126-129.
generate_process_id(source_qualified_name, target_qualified_name) ==
    Md5(Fmt(source_qualified_name) \o <<"|">> \o Fmt(target_qualified_name))

\* ----------------------------------------------------------------- catalog
Entity(type, name, qn, conn, parent) ==
    [type |-> type, name |-> name, qn |-> qn, status |-> "ACTIVE",
     guid |-> 0, conn |-> conn, parent |-> parent,
     inputs |-> <<>>, outputs |-> <<>>, parentGuid |-> 0,
     order |-> 0, dataType |-> <<>>]

ConnectionEntity(name, qn) == Entity("Connection", name, qn, qn, None)
TableEntity(name, conn, schema) ==
    Entity("Table", name, conn \o <<"/">> \o schema \o <<"/">> \o name, conn,
           conn \o <<"/">> \o schema)
ColumnEntity(name, table) ==
    Entity("Column", name, table.qn \o <<"/">> \o name, table.conn, table.qn)
Archived(e) == [e EXCEPT !.status = "ARCHIVED"]

Min(a, b) == IF a < b THEN a ELSE b

Range(s) == {s[i] : i \in 1..Len(s)}

\* The first page of a search: at most `size` of the matches.
Page(matches, size) == SubSeq(matches, 1, Min(Len(matches), size))

IsActive(e) == e.status = "ACTIVE"

\* client.asset.save(draft) with outcome o: "ok" (the catalog answers),
\* "empty" (it answers without a created entity), "raise" (transport error).
\* An entity of the draft's type and qualified name is updated in place.
ExistsAt(cat, draft) ==
    {i \in 1..Len(cat) : cat[i].type = draft.type /\ cat[i].qn = draft.qn}

\* The mutant of Merge: the entity that is saved again is archived.
MergeArchived(old, draft) ==
    [draft EXCEPT !.guid = old.guid, !.status = "ARCHIVED",
                  !.dataType = IF draft.dataType = <<>> THEN old.dataType ELSE @]

Merge(old, draft) ==
    [draft EXCEPT !.guid = old.guid, !.status = old.status,
                  !.dataType = IF draft.dataType = <<>> THEN old.dataType ELSE @]

\* client.asset.save(draft): the catalog keeps one entity of a type and a
\* qualified name; a draft of an entity it holds updates that entity.
SaveCatalog(cat, draft, o) ==
    IF o # "ok" THEN cat
    ELSE IF ExistsAt(cat, draft) # {}
         THEN [i \in 1..Len(cat) |->
                 IF i \in ExistsAt(cat, draft) THEN Merge(cat[i], draft) ELSE cat[i]]
         ELSE Append(cat, [draft EXCEPT !.guid = Len(cat) + 1])

\* The mutant of SaveCreated: the draft is taken as created whatever the
\* catalog has answered.
SaveCreatedAlways(cat, draft, o) == <<[draft EXCEPT !.guid = Len(cat) + 1]>>

\* response.assets_created(asset_type=...) of that save.
SaveCreated(cat, draft, o) ==
    IF o = "ok" /\ ExistsAt(cat, draft) = {}
    THEN <<[draft EXCEPT !.guid = Len(cat) + 1]>>
    ELSE <<>>

\* ------------------------------------------------- lineage: the searches
\* The mutant of get_connection_qualified_name: the search is not limited
\* to active assets.
get_connection_qualified_nameAnyStatus(cat, connection_name) ==
    LET connections ==
          Page(SelectSeq(cat, LAMBDA e : e.type = "Connection"
                                         /\ e.name = connection_name), PAGE_ONE)
    IN  IF connections # <<>> THEN connections[1].qn ELSE None

get_connection_qualified_name(cat, connection_name) ==
    LET connections ==
          Page(SelectSeq(cat, LAMBDA e : IsActive(e) /\ e.type = "Connection"
                                         /\ e.name = connection_name), PAGE_ONE)
    IN  IF connections # <<>> THEN connections[1].qn ELSE None

\* o1 is the outcome of the connection lookup, o2 of the table search.
search_tables_in_connection(cat, connection_name, o1, o2) ==
    IF o1 = "raise" THEN <<>>
    ELSE LET cqn == get_connection_qualified_name(cat, connection_name)
         IN  IF cqn = None THEN <<>>
             ELSE IF o2 = "raise" THEN <<>>
             ELSE SelectSeq(
                    Page(SelectSeq(cat, LAMBDA e : e.conn = cqn /\ IsActive(e)),
                         PAGE_TABLES),
                    LAMBDA e : e.type = "Table")

get_process_by_qualified_name(cat, qualified_name) ==
    Page(SelectSeq(cat, LAMBDA e : IsActive(e) /\ e.type = "Process"
                                   /\ e.qn = qualified_name), PAGE_ONE)

get_column_process_by_qualified_name(cat, qualified_name) ==
    Page(SelectSeq(cat, LAMBDA e : IsActive(e) /\ e.type = "ColumnProcess"
                                   /\ e.qn = qualified_name), PAGE_ONE)

\* The mutant of get_columns_for_table: the search has no table filter.
get_columns_of_any_table(cat, table, o) ==
    IF o = "raise" THEN <<>>
    ELSE Page(SelectSeq(cat, LAMBDA e : IsActive(e) /\ e.type = "Column"), PAGE_COLUMNS)

\* get_columns_for_table(), lines 232-250: a failed search is answered with [].
get_columns_for_table(cat, table, o) ==
    IF o = "raise" THEN <<>>
    ELSE Page(SelectSeq(cat, LAMBDA e : IsActive(e) /\ e.type = "Column"
                                        /\ e.parent = table.qn), PAGE_COLUMNS)

\* ------------------------------------------------- lineage: the matcher
\* A dict is the sequence of its items in insertion order: a key keeps the
\* position of its first insertion and the value of its last.
\* The mutant of DictPut: a key that is present keeps its first value.
DictPutFirst(d, k, v) ==
    IF \E i \in 1..Len(d) : d[i].key = k THEN d
    ELSE Append(d, [key |-> k, val |-> v])

DictPut(d, k, v) ==
    IF \E i \in 1..Len(d) : d[i].key = k
    THEN [i \in 1..Len(d) |-> IF d[i].key = k THEN [key |-> k, val |-> v] ELSE d[i]]
    ELSE Append(d, [key |-> k, val |-> v])

RECURSIVE DictUpTo(_, _)
\* The mutant of DictUpTo: the key is the name as it is written.
DictUpToExact(list, n) ==
    IF n = 0 THEN <<>>
    ELSE DictPut(DictUpTo(list, n - 1), list[n].name, list[n])

DictUpTo(list, n) ==
    IF n = 0 THEN <<>>
    ELSE DictPut(DictUpTo(list, n - 1), Lower(list[n].name), list[n])

\* {e.name.lower(): e for e in list}
NameDict(list) == DictUpTo(list, Len(list))

\* d.get(k): the value in a one-element sequence, or the empty sequence.
DictGet(d, k) ==
    LET hits == SelectSeq(d, LAMBDA it : it.key = k)
    IN  IF hits = <<>> THEN <<>> ELSE <<hits[1].val>>

\* ------------------------------------------------- lineage: one run
Runs == 1..MaxRuns

\* How main() ends: "done" (its last line), "aborted" (a gate declined),
\* "crashed" (an exception left main), "failed" (main caught an exception),
\* "stopped" (main returned early).
Ended == {"done", "aborted", "crashed", "failed", "stopped"}

\* The local variables of main() before its first statement.
IdleRun ==
    [pc |-> "idle", k |-> 1, nfaults |-> 0, budget |-> 0, seen |-> 0,
     connQN |-> <<None, None, None>>,
     tables |-> <<<<>>, <<>>, <<>>>>,
     dict |-> <<<<>>, <<>>, <<>>>>,
     stage |-> 1, i |-> 1, left |-> <<>>, right |-> <<>>,
     check |-> "none", guid |-> 0, pqn |-> None,
     side |-> 1, cols |-> <<<<>>, <<>>>>, cdict |-> <<<<>>, <<>>>>,
     j |-> 1, cleft |-> <<>>, cright |-> <<>>]

\* What is left of a run that has ended: how it ended and how many of its
\* catalog calls failed.
Finish(r, how) == [IdleRun EXCEPT !.pc = how, !.nfaults = r.nfaults]

\* The outcomes a catalog call of run p may have: a call may fail while
\* fewer calls of the run have failed than its budget allows.
MayFail(p) == run[p].nfaults < run[p].budget
SearchOutcomes(p) == IF MayFail(p) THEN {"ok", "raise"} ELSE {"ok"}
SaveOutcomes(p) == IF MayFail(p) THEN {"ok", "empty", "raise"} ELSE {"ok"}
Cost(o) == IF o = "ok" THEN 0 ELSE 1

Fault(p, op, effect) == [run |-> p, op |-> op, effect |-> effect]

\* main(): a run starts when the runs before it have ended.  calls, faults
\* and log record the run in progress.
StartRun(p) ==
    /\ run[p].pc = "idle"
    /\ \A q \in Runs : q < p => run[q].pc \in Ended
    /\ run' = [run EXCEPT ![p].pc = "conns", ![p].budget = MaxFaults]
    /\ calls' = {}
    /\ faults' = {}
    /\ log' = {}
    /\ UNCHANGED <<derived, catalog, csv>>

\* main(), lines 254-256: the k-th connection lookup; its exception leaves main.
GetConnection(p) ==
    /\ run[p].pc = "conns"
    /\ \E o \in SearchOutcomes(p) :
         LET r == run[p] IN
         IF o = "raise"
         THEN /\ run' = [run EXCEPT ![p] = Finish([r EXCEPT !.nfaults = @ + 1], "crashed")]
              /\ faults' = faults \cup {Fault(p, "get_connection", "raised")}
         ELSE /\ run' = [run EXCEPT ![p] =
                   [r EXCEPT !.connQN[r.k] =
                                get_connection_qualified_name(catalog, ConnectionNameOf(r.k)),
                             !.k = IF r.k = 3 THEN 1 ELSE r.k + 1,
                             !.pc = IF r.k = 3 THEN "list" ELSE "conns"]]
              /\ faults' = faults
    /\ UNCHANGED <<derived, catalog, csv, calls, log>>

\* main(), lines 259, 266, 273: the table listing of the k-th source.
ListTables(p) ==
    /\ run[p].pc = "list"
    /\ \E o1 \in SearchOutcomes(p) :
       \E o2 \in (IF o1 = "ok" THEN SearchOutcomes(p) ELSE {"ok"}) :
         LET r == run[p] IN
         /\ run' = [run EXCEPT ![p] =
              [r EXCEPT !.tables[r.k] =
                           search_tables_in_connection(catalog, ConnectionNameOf(r.k), o1, o2),
                        !.nfaults = @ + Cost(o1) + Cost(o2),
                        !.pc = "gate"]]
         /\ faults' = IF o1 = "ok" /\ o2 = "ok" THEN faults
                      ELSE faults \cup {Fault(p, "search_tables", "swallowed")}
    /\ UNCHANGED <<derived, catalog, csv, calls, log>>

\* The mutant of Gate: the joins begin after the first yes, with the
\* dictionaries of the listings made so far.
GateOnce(p) ==
    /\ run[p].pc = "gate"
    /\ \E proceed \in BOOLEAN :
         LET r == run[p] IN
         run' = [run EXCEPT ![p] =
           IF ~proceed THEN Finish(r, "aborted")
           ELSE [r EXCEPT !.dict = <<NameDict(r.tables[1]), NameDict(r.tables[2]),
                                     NameDict(r.tables[3])>>,
                          !.stage = 1, !.i = 1, !.pc = "table"]]
    /\ UNCHANGED <<derived, catalog, csv, calls, faults, log>>

\* confirm_proceed() and main(), lines 260-282: the operator's answer; after
\* the third yes the three name dictionaries are built.
Gate(p) ==
    /\ run[p].pc = "gate"
    /\ \E proceed \in BOOLEAN :
         LET r == run[p] IN
         run' = [run EXCEPT ![p] =
           IF ~proceed THEN Finish(r, "aborted")
           ELSE IF r.k < 3 THEN [r EXCEPT !.k = r.k + 1, !.pc = "list"]
           ELSE [r EXCEPT !.dict = <<NameDict(r.tables[1]), NameDict(r.tables[2]),
                                     NameDict(r.tables[3])>>,
                          !.stage = 1, !.i = 1, !.pc = "table"]]
    /\ UNCHANGED <<derived, catalog, csv, calls, faults, log>>

\* A line about the matching: "Matched ... with ..." (print, lines 288, 308,
\* 327, 347) or "No matching ... found for ..." (logging.warning, lines 317,
\* 321, 356, 360).  within is the table pair of a column line.
Matched(p, stage, level, within, l, e) ==
    [run |-> p, stage |-> stage, level |-> level, kind |-> "matched",
     within |-> within, left |-> l.guid, right |-> e.guid]
Unmatched(p, stage, level, within, l) ==
    [run |-> p, stage |-> stage, level |-> level, kind |-> "unmatched",
     within |-> within, left |-> l.guid, right |-> 0]

\* main(), lines 285-287, 320-321 and 324-326, 359-360: the next key of the
\* left dictionary of the stage; a key without a match is logged.
NextTable(p) ==
    /\ run[p].pc = "table"
    /\ LET r == run[p]
           ld == r.dict[r.stage]
           rd == r.dict[r.stage + 1]
       IN  IF r.i > Len(ld)
           THEN /\ run' = [run EXCEPT ![p] =
                     IF r.stage = 1 THEN [r EXCEPT !.stage = 2, !.i = 1]
                     ELSE Finish(r, "done")]
                /\ log' = log
           ELSE LET m == DictGet(rd, ld[r.i].key) IN
                IF m # <<>>
                THEN /\ run' = [run EXCEPT ![p] =
                          [r EXCEPT !.left = <<ld[r.i].val>>, !.right = m,
                                    !.pc = "check_process"]]
                     /\ log' = log \cup {Matched(p, r.stage, "table", <<0, 0>>,
                                                  ld[r.i].val, m[1])}
                ELSE /\ run' = [run EXCEPT ![p] = [r EXCEPT !.i = r.i + 1]]
                     /\ log' = log \cup {Unmatched(p, r.stage, "table", <<0, 0>>, ld[r.i].val)}
    /\ UNCHANGED <<derived, catalog, csv, calls, faults>>

\* ------------------------------------------------- lineage: table edges
\* The connection a stage's Process is created under (lines 292, 331).
StageConnQN(r) == r.connQN[r.stage + 1]

\* The mutant of ProcessQualifiedName: the qualified name that is searched is
\* put together from the two table names, not from the process id.
ProcessQualifiedNameFromNames(source_table, target_table, connection_qualified_name) ==
    Fmt(connection_qualified_name) \o <<"/">> \o source_table.name \o <<" -> ">>
      \o target_table.name

\* set_table_lineage(), lines 141-143.
ProcessQualifiedName(source_table, target_table, connection_qualified_name) ==
    Fmt(connection_qualified_name) \o <<"/", "process_">>
      \o generate_process_id(source_table.qn, target_table.qn)

\* The mutant of ProcessDraft: the source table is given as the output and
\* the target table as the input.
ProcessDraftReversed(source_table, target_table, connection_qualified_name) ==
    [Entity("Process", source_table.name \o <<" -> ">> \o target_table.name,
            Fmt(connection_qualified_name) \o <<"/", "process_">>
              \o generate_process_id(source_table.qn, target_table.qn),
            connection_qualified_name, None)
       EXCEPT !.inputs = <<target_table.guid>>, !.outputs = <<source_table.guid>>]

\* Process.creator(...), lines 153-161: the draft and the qualified name the
\* creator derives from connection_qualified_name and process_id.
ProcessDraft(source_table, target_table, connection_qualified_name) ==
    [Entity("Process", source_table.name \o <<" -> ">> \o target_table.name,
            Fmt(connection_qualified_name) \o <<"/", "process_">>
              \o generate_process_id(source_table.qn, target_table.qn),
            connection_qualified_name, None)
       EXCEPT !.inputs = <<source_table.guid>>, !.outputs = <<target_table.guid>>]

\* A client.asset.save() call: op is "create" for a draft of a creator and
\* "update" for a fetched entity; check is what the existence search before it
\* had answered ("absent", "failed", or "none" when there was no search);
\* existed tells whether the catalog held the entity when the call was made,
\* and since whether it came into the catalog after that search.
SaveCall(p, op, draft, check, o) ==
    [run |-> p, op |-> op, type |-> draft.type, qn |-> draft.qn,
     inputs |-> draft.inputs, outputs |-> draft.outputs, check |-> check,
     existed |-> ExistsAt(catalog, draft) # {},
     since |-> \E i \in ExistsAt(catalog, draft) : i > run[p].seen,
     outcome |-> o]

\* set_table_lineage(), lines 145-150, with get_process_by_qualified_name():
\* a failed search is logged and answered with None.
CheckProcess(p) ==
    /\ run[p].pc = "check_process"
    /\ \E o \in SearchOutcomes(p) :
         LET r == run[p]
             qn == ProcessQualifiedName(r.left[1], r.right[1], StageConnQN(r))
             existing_process ==
               IF o = "raise" THEN <<>> ELSE get_process_by_qualified_name(catalog, qn)
         IN  /\ run' = [run EXCEPT ![p] =
                  IF existing_process # <<>>
                  THEN [r EXCEPT !.guid = existing_process[1].guid,
                                 !.pqn = existing_process[1].qn,
                                 !.check = "none", !.seen = 0, !.side = 1, !.pc = "columns"]
                  ELSE [r EXCEPT !.check = IF o = "raise" THEN "failed" ELSE "absent",
                                 !.seen = Len(catalog),
                                 !.nfaults = @ + Cost(o),
                                 !.pc = "save_process"]]
             /\ faults' = IF o = "raise"
                          THEN faults \cup {Fault(p, "get_process", "swallowed")}
                          ELSE faults
    /\ UNCHANGED <<derived, catalog, csv, calls, log>>

\* set_table_lineage(), lines 152-179: the save and what is returned.
SaveProcess(p) ==
    /\ run[p].pc = "save_process"
    /\ \E o \in SaveOutcomes(p) :
         LET r == run[p]
             draft == ProcessDraft(r.left[1], r.right[1], StageConnQN(r))
             processes == SaveCreated(catalog, draft, o)
         IN  /\ catalog' = SaveCatalog(catalog, draft, o)
             /\ calls' = calls \cup {SaveCall(p, "create", draft, r.check, o)}
             /\ run' = [run EXCEPT ![p] =
                  IF processes # <<>>
                  THEN [r EXCEPT !.guid = processes[1].guid, !.pqn = processes[1].qn,
                                 !.check = "none", !.seen = 0, !.side = 1,
                                 !.nfaults = @ + Cost(o), !.pc = "columns"]
                  ELSE [r EXCEPT !.guid = 0, !.pqn = None, !.check = "none", !.seen = 0,
                                 !.left = <<>>, !.right = <<>>,
                                 !.i = r.i + 1, !.nfaults = @ + Cost(o), !.pc = "table"]]
             /\ faults' = IF o = "raise"
                          THEN faults \cup {Fault(p, "save_process", "swallowed")}
                          ELSE faults
    /\ UNCHANGED <<derived, csv, log>>

\* main(), lines 297-302 and 336-341, with get_columns_for_table(): the two
\* column listings of the pair, then the two name dictionaries.
ListColumns(p) ==
    /\ run[p].pc = "columns"
    /\ \E o \in SearchOutcomes(p) :
         LET r == run[p]
             table == IF r.side = 1 THEN r.left[1] ELSE r.right[1]
             columns == get_columns_for_table(catalog, table, o)
             cols == [r.cols EXCEPT ![r.side] = columns]
         IN  /\ run' = [run EXCEPT ![p] =
                  IF r.side = 1
                  THEN [r EXCEPT !.cols = cols, !.side = 2, !.nfaults = @ + Cost(o)]
                  ELSE [r EXCEPT !.cols = cols, !.side = 1,
                                 !.cdict = <<NameDict(cols[1]), NameDict(cols[2])>>,
                                 !.j = 1, !.nfaults = @ + Cost(o), !.pc = "column"]]
             /\ faults' = IF o = "raise"
                          THEN faults \cup {Fault(p, "get_columns", "swallowed")}
                          ELSE faults
    /\ UNCHANGED <<derived, catalog, csv, calls, log>>

\* main(), lines 305-307, 316-317 and 344-346, 355-356: the next key of the
\* left column dictionary; after the last one the next table pair.
NextColumn(p) ==
    /\ run[p].pc = "column"
    /\ LET r == run[p]
           ld == r.cdict[1]
           rd == r.cdict[2]
       IN  IF r.j > Len(ld)
           THEN /\ run' = [run EXCEPT ![p] =
                     [r EXCEPT !.guid = 0, !.pqn = None, !.check = "none", !.seen = 0,
                               !.left = <<>>, !.right = <<>>,
                               !.cols = <<<<>>, <<>>>>,
                               !.cdict = <<<<>>, <<>>>>, !.j = 1,
                               !.i = r.i + 1, !.pc = "table"]]
                /\ log' = log
           ELSE LET m == DictGet(rd, ld[r.j].key) IN
                IF m # <<>>
                THEN /\ run' = [run EXCEPT ![p] =
                          [r EXCEPT !.cleft = <<ld[r.j].val>>, !.cright = m,
                                    !.pc = "check_column_process"]]
                     /\ log' = log \cup {Matched(p, r.stage, "column",
                                                  <<r.left[1].guid, r.right[1].guid>>,
                                                  ld[r.j].val, m[1])}
                ELSE /\ run' = [run EXCEPT ![p] = [r EXCEPT !.j = r.j + 1]]
                     /\ log' = log \cup {Unmatched(p, r.stage, "column",
                                                    <<r.left[1].guid, r.right[1].guid>>,
                                                    ld[r.j].val)}
    /\ UNCHANGED <<derived, catalog, csv, calls, faults>>

\* ------------------------------------------------- lineage: column edges
\* set_column_lineage(), lines 191-193.
ColumnProcessQualifiedName(source_column, target_column, parent_process_qualified_name) ==
    Fmt(parent_process_qualified_name) \o <<"/", "column_process_">>
      \o generate_process_id(source_column.qn, target_column.qn)

\* ColumnProcess.creator(...), lines 203-212.
ColumnProcessDraft(source_column, target_column, parent_guid, parent_qualified_name) ==
    [Entity("ColumnProcess", source_column.name \o <<" -> ">> \o target_column.name,
            Fmt(parent_qualified_name) \o <<"/", "column_process_">>
              \o generate_process_id(source_column.qn, target_column.qn),
            parent_qualified_name, None)
       EXCEPT !.inputs = <<source_column.guid>>, !.outputs = <<target_column.guid>>,
              !.parentGuid = parent_guid]

\* set_column_lineage(), lines 195-200, with
\* get_column_process_by_qualified_name().
CheckColumnProcess(p) ==
    /\ run[p].pc = "check_column_process"
    /\ \E o \in SearchOutcomes(p) :
         LET r == run[p]
             qn == ColumnProcessQualifiedName(r.cleft[1], r.cright[1], r.pqn)
             existing_column_process ==
               IF o = "raise" THEN <<>>
               ELSE get_column_process_by_qualified_name(catalog, qn)
         IN  /\ run' = [run EXCEPT ![p] =
                  IF existing_column_process # <<>>
                  THEN [r EXCEPT !.cleft = <<>>, !.cright = <<>>,
                                 !.j = r.j + 1, !.pc = "column"]
                  ELSE [r EXCEPT !.check = IF o = "raise" THEN "failed" ELSE "absent",
                                 !.seen = Len(catalog),
                                 !.nfaults = @ + Cost(o),
                                 !.pc = "save_column_process"]]
             /\ faults' = IF o = "raise"
                          THEN faults \cup {Fault(p, "get_column_process", "swallowed")}
                          ELSE faults
    /\ UNCHANGED <<derived, catalog, csv, calls, log>>

\* set_column_lineage(), lines 202-223.
SaveColumnProcess(p) ==
    /\ run[p].pc = "save_column_process"
    /\ \E o \in SaveOutcomes(p) :
         LET r == run[p]
             draft == ColumnProcessDraft(r.cleft[1], r.cright[1], r.guid, r.pqn)
         IN  /\ catalog' = SaveCatalog(catalog, draft, o)
             /\ calls' = calls \cup {SaveCall(p, "create", draft, r.check, o)}
             /\ run' = [run EXCEPT ![p] =
                  [r EXCEPT !.cleft = <<>>, !.cright = <<>>, !.check = "none", !.seen = 0,
                            !.j = r.j + 1, !.nfaults = @ + Cost(o), !.pc = "column"]]
             /\ faults' = IF o = "raise"
                          THEN faults \cup {Fault(p, "save_column_process", "swallowed")}
                          ELSE faults
    /\ UNCHANGED <<derived, csv, log>>

\* ------------------------------------------------- hierarchy: the searches
\* config.DATABASE_NAME, config.SCHEMA_NAME
DATABASE_NAME == <<"db">>
SCHEMA_NAME == <<"raw">>

\* get_existing_connection(), lines 44-57: the store matches the name without
\* regard to case, the first page holds one asset, and the loop compares the
\* lower-cased names again.
get_existing_connection(cat, name) ==
    SelectSeq(
      Page(SelectSeq(cat, LAMBDA e : e.type = "Connection" /\ IsActive(e)
                                     /\ Lower(e.name) = Lower(name)), PAGE_ONE),
      LAMBDA e : e.type = "Connection" /\ Lower(e.name) = Lower(name))

\* get_existing_database(), get_existing_schema(), get_existing_table(): the
\* same search for a type under a parent qualified name.
get_existing_child(cat, type, name, parent_qualified_name) ==
    SelectSeq(
      Page(SelectSeq(cat, LAMBDA e : e.type = type /\ IsActive(e)
                                     /\ Lower(e.name) = Lower(name)
                                     /\ e.parent = parent_qualified_name), PAGE_ONE),
      LAMBDA e : e.type = type /\ Lower(e.name) = Lower(name))

get_existing_database(cat, name, connection_qualified_name) ==
    get_existing_child(cat, "Database", name, connection_qualified_name)

get_existing_schema(cat, name, database_qualified_name) ==
    get_existing_child(cat, "Schema", name, database_qualified_name)

get_existing_table(cat, name, schema_qualified_name) ==
    get_existing_child(cat, "Table", name, schema_qualified_name)

\* ------------------------------------------------- hierarchy: the drafts
\* The connection qualified name in front of a qualified name below it.
ConnectionOf(qn) == SubSeq(qn, 1, 2)

\* Connection.creator(...), lines 76-82: the qualified name ends in the time
\* of the creation, here the number of entities the catalog holds.
ConnectionDraft(cat) ==
    ConnectionEntity(AWS_CONNECTION_NAME, <<"default/s3/", ToString(Len(cat) + 1)>>)

\* Database.creator, Schema.creator, Table.creator (lines 135, 190, 244): the
\* qualified name is the parent's followed by the name.
ChildDraft(type, name, parent_qualified_name) ==
    Entity(type, name, parent_qualified_name \o <<"/">> \o name,
           ConnectionOf(parent_qualified_name), parent_qualified_name)

\* The mutant of ColumnDraft: the positions are counted from 0, as by
\* enumerate() without start=1.
ColumnDraftFromZero(col_name, table_asset, idx) ==
    [Entity("Column", col_name, table_asset.qn \o <<"/">> \o col_name,
            ConnectionOf(table_asset.qn), table_asset.qn)
       EXCEPT !.order = idx - 1]

\* Column.creator(...), lines 325-330.
ColumnDraft(col_name, table_asset, idx) ==
    [Entity("Column", col_name, table_asset.qn \o <<"/">> \o col_name,
            ConnectionOf(table_asset.qn), table_asset.qn)
       EXCEPT !.order = idx]

\* ------------------------------------------------- hierarchy: the CSV files
\* col.startswith('Unnamed'), on the first token of the name.
StartsWithUnnamed(col) ==
    Len(col) > 0 /\ col[1] \in {"Unnamed", "Unnamed: 0", "Unnamed: 1"}

\* Line 280.
ColumnNames(columns) ==
    LET named == SelectSeq(columns, LAMBDA c : ~StartsWithUnnamed(c.name))
    IN  [i \in 1..Len(named) |-> named[i].name]

\* pandas_to_atlan_types.get(pandas_type, 'string'), lines 293-308.
AtlanType(pandas_type) ==
    CASE pandas_type = "int64" -> <<"bigint">>
      [] pandas_type = "int32" -> <<"int">>
      [] pandas_type = "float64" -> <<"double">>
      [] pandas_type = "float32" -> <<"float">>
      [] pandas_type = "object" -> <<"string">>
      [] pandas_type = "bool" -> <<"boolean">>
      [] pandas_type = "datetime64[ns]" -> <<"timestamp">>
      [] pandas_type = "timedelta[ns]" -> <<"interval">>
      [] OTHER -> <<"string">>

\* column_type_mapping.get(col_name, 'string'), lines 305-309 and 346: the
\* type of the last column of that name.
ColumnType(columns, col_name) ==
    LET hits == SelectSeq(columns, LAMBDA c : c.name = col_name)
    IN  IF hits = <<>> THEN <<"string">> ELSE AtlanType(hits[Len(hits)].dtype)

\* csv_file_key.replace('/', '_').replace('.csv', ''), line 312.
RECURSIVE TableNameOf(_)
TableNameOf(key) ==
    IF key = <<>> THEN <<>>
    ELSE LET t == Head(key) IN
         (IF t = "/" THEN <<"_">> ELSE IF t = ".csv" THEN <<>> ELSE <<t>>)
           \o TableNameOf(Tail(key))

\* ------------------------------------------------- hierarchy: one run
\* The local variables of main() and extract_and_create_columns().
HIdleRun ==
    [pc |-> "idle", nfaults |-> 0, budget |-> 0, seen |-> 0, check |-> "none",
     connQN |-> None, dbQN |-> None, schemaQN |-> None,
     f |-> 1, names |-> <<>>, table |-> <<>>, c |-> 1, column |-> <<>>]

HFinish(r, how) == [HIdleRun EXCEPT !.pc = how, !.nfaults = r.nfaults]

\* A save answers with a response ("ok", or "empty" when nothing was
\* created), with a falsy response ("none"), or raises.
HSaveOutcomes(p) == IF MayFail(p) THEN {"ok", "empty", "none", "raise"} ELSE {"ok"}

HStartRun(p) ==
    /\ run[p].pc = "idle"
    /\ \A q \in Runs : q < p => run[q].pc \in Ended
    /\ run' = [run EXCEPT ![p].pc = "h_connection", ![p].budget = MaxFaults]
    /\ calls' = {}
    /\ faults' = {}
    /\ log' = {}
    /\ UNCHANGED <<derived, catalog, csv>>

\* After `if response and response.assets_created:` (lines 84, 140, 195,
\* 249): assets_created is a method, so the test is that of the response
\* alone, and [0] of an empty list raises.
AfterSave(created, o) ==
    CASE o = "raise" -> "raise"
      [] o = "none" -> "none"
      [] created = <<>> -> "raise"
      [] OTHER -> "created"

\* create_s3_connection(), lines 68-71, with get_existing_connection().
EnsureConnection(p) ==
    /\ run[p].pc = "h_connection"
    /\ \E o \in SearchOutcomes(p) :
         LET r == run[p]
             existing_connection == get_existing_connection(catalog, AWS_CONNECTION_NAME)
         IN  /\ run' = [run EXCEPT ![p] =
                  IF o = "raise" THEN HFinish([r EXCEPT !.nfaults = @ + 1], "failed")
                  ELSE IF existing_connection # <<>>
                  THEN [r EXCEPT !.connQN = existing_connection[1].qn, !.pc = "h_database"]
                  ELSE [r EXCEPT !.check = "absent", !.seen = Len(catalog),
                                 !.pc = "h_save_connection"]]
             /\ faults' = IF o = "raise"
                          THEN faults \cup {Fault(p, "get_existing_connection", "raised")}
                          ELSE faults
    /\ UNCHANGED <<derived, catalog, csv, calls, log>>

\* The mutant of SaveConnection: main() goes on to the database whatever
\* create_s3_connection() has returned.
SaveConnectionGoingOn(p) ==
    /\ run[p].pc = "h_save_connection"
    /\ \E o \in HSaveOutcomes(p) :
         LET r == run[p]
             draft == ConnectionDraft(catalog)
             created == SaveCreated(catalog, draft, o)
             after == AfterSave(created, o)
         IN  /\ catalog' = SaveCatalog(catalog, draft, o)
             /\ calls' = calls \cup {SaveCall(p, "create", draft, r.check, o)}
             /\ run' = [run EXCEPT ![p] =
                  CASE after = "created" ->
                         [r EXCEPT !.connQN = created[1].qn, !.check = "none", !.seen = 0,
                                   !.pc = "h_database"]
                    [] after = "none" ->
                         [r EXCEPT !.connQN = None, !.check = "none", !.seen = 0,
                                   !.nfaults = @ + Cost(o), !.pc = "h_database"]
                    [] OTHER -> HFinish([r EXCEPT !.nfaults = @ + Cost(o)], "failed")]
             /\ faults' = IF o = "raise"
                          THEN faults \cup {Fault(p, "save_connection", "raised")}
                          ELSE faults
    /\ UNCHANGED <<derived, csv, log>>

\* create_s3_connection(), lines 73-97, then main(), lines 387-390.
SaveConnection(p) ==
    /\ run[p].pc = "h_save_connection"
    /\ \E o \in HSaveOutcomes(p) :
         LET r == run[p]
             draft == ConnectionDraft(catalog)
             created == SaveCreated(catalog, draft, o)
             after == AfterSave(created, o)
         IN  /\ catalog' = SaveCatalog(catalog, draft, o)
             /\ calls' = calls \cup {SaveCall(p, "create", draft, r.check, o)}
             /\ run' = [run EXCEPT ![p] =
                  CASE after = "created" ->
                         [r EXCEPT !.connQN = created[1].qn, !.check = "none", !.seen = 0,
                                   !.pc = "h_database"]
                    [] after = "none" -> HFinish([r EXCEPT !.nfaults = @ + Cost(o)], "stopped")
                    [] OTHER -> HFinish([r EXCEPT !.nfaults = @ + Cost(o)], "failed")]
             /\ faults' = IF o = "raise"
                          THEN faults \cup {Fault(p, "save_connection", "raised")}
                          ELSE faults
    /\ UNCHANGED <<derived, csv, log>>

\* create_database(), lines 128-131, with get_existing_database().
EnsureDatabase(p) ==
    /\ run[p].pc = "h_database"
    /\ \E o \in SearchOutcomes(p) :
         LET r == run[p]
             existing_database == get_existing_database(catalog, DATABASE_NAME, r.connQN)
         IN  /\ run' = [run EXCEPT ![p] =
                  IF o = "raise" THEN HFinish([r EXCEPT !.nfaults = @ + 1], "failed")
                  ELSE IF existing_database # <<>>
                  THEN [r EXCEPT !.dbQN = existing_database[1].qn, !.pc = "h_schema"]
                  ELSE [r EXCEPT !.check = "absent", !.seen = Len(catalog),
                                 !.pc = "h_save_database"]]
             /\ faults' = IF o = "raise"
                          THEN faults \cup {Fault(p, "get_existing_database", "raised")}
                          ELSE faults
    /\ UNCHANGED <<derived, catalog, csv, calls, log>>

\* create_database(), lines 132-152, then main(), lines 394-397.
SaveDatabase(p) ==
    /\ run[p].pc = "h_save_database"
    /\ \E o \in HSaveOutcomes(p) :
         LET r == run[p]
             draft == ChildDraft("Database", DATABASE_NAME, r.connQN)
             created == SaveCreated(catalog, draft, o)
             after == AfterSave(created, o)
         IN  /\ catalog' = SaveCatalog(catalog, draft, o)
             /\ calls' = calls \cup {SaveCall(p, "create", draft, r.check, o)}
             /\ run' = [run EXCEPT ![p] =
                  CASE after = "created" ->
                         [r EXCEPT !.dbQN = created[1].qn, !.check = "none", !.seen = 0,
                                   !.pc = "h_schema"]
                    [] after = "none" -> HFinish([r EXCEPT !.nfaults = @ + Cost(o)], "stopped")
                    [] OTHER -> HFinish([r EXCEPT !.nfaults = @ + Cost(o)], "failed")]
             /\ faults' = IF o = "raise"
                          THEN faults \cup {Fault(p, "save_database", "raised")}
                          ELSE faults
    /\ UNCHANGED <<derived, csv, log>>

\* After the schema: main(), lines 407-414.
FirstFile(r) ==
    IF csv = <<>> THEN HFinish(r, "stopped")
    ELSE [r EXCEPT !.f = 1, !.check = "none", !.seen = 0, !.pc = "h_file"]

\* create_schema(), lines 183-186, with get_existing_schema().
EnsureSchema(p) ==
    /\ run[p].pc = "h_schema"
    /\ \E o \in SearchOutcomes(p) :
         LET r == run[p]
             existing_schema == get_existing_schema(catalog, SCHEMA_NAME, r.dbQN)
         IN  /\ run' = [run EXCEPT ![p] =
                  IF o = "raise" THEN HFinish([r EXCEPT !.nfaults = @ + 1], "failed")
                  ELSE IF existing_schema # <<>>
                  THEN FirstFile([r EXCEPT !.schemaQN = existing_schema[1].qn])
                  ELSE [r EXCEPT !.check = "absent", !.seen = Len(catalog),
                                 !.pc = "h_save_schema"]]
             /\ faults' = IF o = "raise"
                          THEN faults \cup {Fault(p, "get_existing_schema", "raised")}
                          ELSE faults
    /\ UNCHANGED <<derived, catalog, csv, calls, log>>

\* create_schema(), lines 187-207, then main(), lines 401-404.
SaveSchema(p) ==
    /\ run[p].pc = "h_save_schema"
    /\ \E o \in HSaveOutcomes(p) :
         LET r == run[p]
             draft == ChildDraft("Schema", SCHEMA_NAME, r.dbQN)
             created == SaveCreated(catalog, draft, o)
             after == AfterSave(created, o)
         IN  /\ catalog' = SaveCatalog(catalog, draft, o)
             /\ calls' = calls \cup {SaveCall(p, "create", draft, r.check, o)}
             /\ run' = [run EXCEPT ![p] =
                  CASE after = "created" -> FirstFile([r EXCEPT !.schemaQN = created[1].qn])
                    [] after = "none" -> HFinish([r EXCEPT !.nfaults = @ + Cost(o)], "stopped")
                    [] OTHER -> HFinish([r EXCEPT !.nfaults = @ + Cost(o)], "failed")]
             /\ faults' = IF o = "raise"
                          THEN faults \cup {Fault(p, "save_schema", "raised")}
                          ELSE faults
    /\ UNCHANGED <<derived, csv, log>>

\* ------------------------------------------------- hierarchy: one CSV file
\* The end of extract_and_create_columns() for the file: the next file of
\* main()'s loop (lines 414-415), or the end of main().
NextFile(r) ==
    IF r.f < Len(csv)
    THEN [r EXCEPT !.f = r.f + 1, !.names = <<>>, !.table = <<>>, !.c = 1,
                   !.column = <<>>, !.check = "none", !.seen = 0, !.pc = "h_file"]
    ELSE HFinish(r, "done")

\* extract_and_create_columns(), lines 266-287: the file is read and its
\* column names are filtered.
ReadCsv(p) ==
    /\ run[p].pc = "h_file"
    /\ \E o \in SearchOutcomes(p) :
         LET r == run[p]
             column_names == ColumnNames(csv[r.f].columns)
         IN  /\ run' = [run EXCEPT ![p] =
                  IF o = "raise" THEN HFinish([r EXCEPT !.nfaults = @ + 1], "failed")
                  ELSE IF column_names = <<>> THEN NextFile(r)
                  ELSE [r EXCEPT !.names = column_names, !.pc = "h_table"]]
             /\ faults' = IF o = "raise"
                          THEN faults \cup {Fault(p, "get_object", "raised")}
                          ELSE faults
    /\ UNCHANGED <<derived, catalog, csv, calls, log>>

\* create_table(), lines 237-240, with get_existing_table().
EnsureTable(p) ==
    /\ run[p].pc = "h_table"
    /\ \E o \in SearchOutcomes(p) :
         LET r == run[p]
             existing_table ==
               get_existing_table(catalog, TableNameOf(csv[r.f].key), r.schemaQN)
         IN  /\ run' = [run EXCEPT ![p] =
                  IF o = "raise" THEN HFinish([r EXCEPT !.nfaults = @ + 1], "failed")
                  ELSE IF existing_table # <<>>
                  THEN [r EXCEPT !.table = existing_table, !.pc = "h_save_columns"]
                  ELSE [r EXCEPT !.check = "absent", !.seen = Len(catalog),
                                 !.pc = "h_save_table"]]
             /\ faults' = IF o = "raise"
                          THEN faults \cup {Fault(p, "get_existing_table", "raised")}
                          ELSE faults
    /\ UNCHANGED <<derived, catalog, csv, calls, log>>

\* create_table(), lines 241-261, then lines 314-317.
SaveTable(p) ==
    /\ run[p].pc = "h_save_table"
    /\ \E o \in HSaveOutcomes(p) :
         LET r == run[p]
             draft == ChildDraft("Table", TableNameOf(csv[r.f].key), r.schemaQN)
             created == SaveCreated(catalog, draft, o)
             after == AfterSave(created, o)
         IN  /\ catalog' = SaveCatalog(catalog, draft, o)
             /\ calls' = calls \cup {SaveCall(p, "create", draft, r.check, o)}
             /\ run' = [run EXCEPT ![p] =
                  CASE after = "created" ->
                         [r EXCEPT !.table = created, !.check = "none", !.seen = 0,
                                   !.pc = "h_save_columns"]
                    [] after = "none" -> NextFile([r EXCEPT !.nfaults = @ + Cost(o)])
                    [] OTHER -> HFinish([r EXCEPT !.nfaults = @ + Cost(o)], "failed")]
             /\ faults' = IF o = "raise"
                          THEN faults \cup {Fault(p, "save_table", "raised")}
                          ELSE faults
    /\ UNCHANGED <<derived, csv, log>>

\* The drafts of lines 320-331, in the order of the columns.
ColumnDrafts(column_names, table_asset) ==
    [idx \in 1..Len(column_names) |-> ColumnDraft(column_names[idx], table_asset, idx)]

\* client.asset.save(column_assets): the catalog takes the drafts whose
\* position is in `applied`, one after the other.
RECURSIVE SaveBatch(_, _, _, _)
SaveBatch(cat, drafts, applied, n) ==
    IF n = 0 THEN cat
    ELSE LET before == SaveBatch(cat, drafts, applied, n - 1)
         IN  IF n \in applied THEN SaveCatalog(before, drafts[n], "ok") ELSE before

\* The batch call, as one entry of calls.
BatchCall(p, table_asset, o) ==
    [run |-> p, op |-> "create", type |-> "Column", qn |-> table_asset.qn,
     inputs |-> <<>>, outputs |-> <<>>, check |-> "none",
     existed |-> \E e \in Range(catalog) : e.type = "Column" /\ e.parent = table_asset.qn,
     since |-> FALSE, outcome |-> o]

\* extract_and_create_columns(), lines 319-342: all columns of the file are
\* saved in one call; there is no search before it.
SaveColumns(p) ==
    /\ run[p].pc = "h_save_columns"
    /\ \E o \in (IF MayFail(p) THEN {"ok", "none", "raise"} ELSE {"ok"}) :
       \E applied \in (IF o = "ok" /\ MayFail(p)
                       THEN SUBSET (1..Len(run[p].names))
                       ELSE IF o = "ok" THEN {1..Len(run[p].names)} ELSE {{}}) :
         LET r == run[p]
             column_assets == ColumnDrafts(r.names, r.table[1])
             partial == IF applied = 1..Len(r.names) THEN 0 ELSE 1
         IN  /\ catalog' = SaveBatch(catalog, column_assets, applied, Len(column_assets))
             /\ calls' = calls \cup
                  {BatchCall(p, r.table[1], IF o = "ok" /\ partial = 1 THEN "partial" ELSE o)}
             /\ run' = [run EXCEPT ![p] =
                  CASE o = "raise" -> HFinish([r EXCEPT !.nfaults = @ + 1], "failed")
                    [] o = "none" -> NextFile([r EXCEPT !.nfaults = @ + 1])
                    [] OTHER -> [r EXCEPT !.nfaults = @ + partial, !.c = 1,
                                          !.pc = "h_get_column"]]
             /\ faults' = IF o = "raise"
                          THEN faults \cup {Fault(p, "save_columns", "raised")}
                          ELSE faults
    /\ UNCHANGED <<derived, csv, log>>

\* client.get_asset_by_qualified_name(Column, qualified_name), line 355.
get_asset_by_qualified_name(cat, qualified_name) ==
    Page(SelectSeq(cat, LAMBDA e : e.type = "Column" /\ e.qn = qualified_name),
         PAGE_ONE)

\* The mutant of NextPatch: without the try of lines 353-376 a column that
\* could not be fetched ends the run through the handlers of lines 378-381
\* and 425-427.
NextPatchOrRaise(r) ==
    IF r.column = <<>> THEN HFinish(r, "failed")
    ELSE IF r.c < Len(r.names)
    THEN [r EXCEPT !.c = r.c + 1, !.column = <<>>, !.pc = "h_get_column"]
    ELSE NextFile(r)

\* The next column of phase 2 (line 345), or the end of the file.
NextPatch(r) ==
    IF r.c < Len(r.names)
    THEN [r EXCEPT !.c = r.c + 1, !.column = <<>>, !.pc = "h_get_column"]
    ELSE NextFile(r)

\* The message of lines 369-370 for a column that the fetch did not find.
NotFound(p, qualified_name) == [run |-> p, kind |-> "not found", qn |-> qualified_name]

\* extract_and_create_columns(), lines 345-358 and 369-376: the column is
\* fetched by its qualified name; a column that is not found, or an
\* exception, is logged and the loop goes on.
GetColumn(p) ==
    /\ run[p].pc = "h_get_column"
    /\ \E o \in SearchOutcomes(p) :
         LET r == run[p]
             column_qualified_name == r.table[1].qn \o <<"/">> \o r.names[r.c]
             column == IF o = "raise" THEN <<>>
                       ELSE get_asset_by_qualified_name(catalog, column_qualified_name)
         IN  /\ run' = [run EXCEPT ![p] =
                  IF column # <<>>
                  THEN [r EXCEPT !.column = column, !.pc = "h_patch_column"]
                  ELSE NextPatch([r EXCEPT !.nfaults = @ + Cost(o)])]
             /\ faults' = IF o = "raise"
                          THEN faults \cup {Fault(p, "get_asset_by_qualified_name", "swallowed")}
                          ELSE faults
             /\ log' = IF o # "raise" /\ column = <<>>
                       THEN log \cup {NotFound(p, column_qualified_name)}
                       ELSE log
    /\ UNCHANGED <<derived, catalog, csv, calls>>

\* extract_and_create_columns(), lines 360-376: the data type is set on the
\* fetched column and the column is saved.
PatchColumn(p) ==
    /\ run[p].pc = "h_patch_column"
    /\ \E o \in HSaveOutcomes(p) :
         LET r == run[p]
             column == [r.column[1] EXCEPT
                          !.dataType = ColumnType(csv[r.f].columns, r.names[r.c])]
         IN  /\ catalog' = SaveCatalog(catalog, column, o)
             /\ calls' = calls \cup {SaveCall(p, "update", column, "none", o)}
             /\ run' = [run EXCEPT ![p] = NextPatch([r EXCEPT !.nfaults = @ + Cost(o)])]
             /\ faults' = IF o = "raise"
                          THEN faults \cup {Fault(p, "save_column", "swallowed")}
                          ELSE faults
    /\ UNCHANGED <<derived, csv, log>>

\* ------------------------------------------------- the catalogs at the start
WithGuids(s) == [i \in 1..Len(s) |-> [s[i] EXCEPT !.guid = i]]


PgQN == <<"default/postgres/", "1">>
S3QN == <<"default/s3/", "2">>
S3OldQN == <<"default/s3/", "0">>
SfQN == <<"default/snowflake/", "3">>

\* Orders and Users against orders and ADDRESSES, and orders against ORDERS.
SeedOrders ==
    LET pgOrders == TableEntity(<<"Orders">>, PgQN, <<"db", "/", "public">>)
        pgUsers == TableEntity(<<"Users">>, PgQN, <<"db", "/", "public">>)
        s3Orders == TableEntity(<<"orders">>, S3QN, <<"db", "/", "raw">>)
        s3Addr == TableEntity(<<"ADDRESSES">>, S3QN, <<"db", "/", "raw">>)
        sfOrders == TableEntity(<<"ORDERS">>, SfQN, <<"DB", "/", "PUBLIC">>)
    IN  WithGuids(<<
          ConnectionEntity(POSTGRES_CONNECTION_NAME, PgQN),
          ConnectionEntity(AWS_CONNECTION_NAME, S3QN),
          ConnectionEntity(SNOWFLAKE_CONNECTION_NAME, SfQN),
          pgOrders, pgUsers, s3Orders, s3Addr, sfOrders,
          ColumnEntity(<<"id">>, pgOrders), ColumnEntity(<<"name">>, pgOrders),
          ColumnEntity(<<"ID">>, s3Orders), ColumnEntity(<<"_ingested_at">>, s3Orders),
          ColumnEntity(<<"Id">>, sfOrders)>>)

\* Two Postgres tables and two columns that differ in letter case only, an
\* archived connection of the S3 name, and no Snowflake connection.
SeedDuplicates ==
    LET pgOrders == TableEntity(<<"Orders">>, PgQN, <<"db", "/", "public">>)
        pgORDERS == TableEntity(<<"ORDERS">>, PgQN, <<"db", "/", "audit">>)
        s3Orders == TableEntity(<<"orders">>, S3QN, <<"db", "/", "raw">>)
    IN  WithGuids(<<
          Archived(ConnectionEntity(AWS_CONNECTION_NAME, S3OldQN)),
          ConnectionEntity(POSTGRES_CONNECTION_NAME, PgQN),
          ConnectionEntity(AWS_CONNECTION_NAME, S3QN),
          pgOrders, pgORDERS, s3Orders,
          ColumnEntity(<<"id">>, pgORDERS), ColumnEntity(<<"ID">>, pgORDERS),
          ColumnEntity(<<"id">>, pgOrders),
          ColumnEntity(<<"Id">>, s3Orders), ColumnEntity(<<"id">>, s3Orders)>>)

\* The catalog of SeedOrders with the S3 connection under the name "S3".
SeedCase ==
    [i \in 1..Len(SeedOrders) |->
       IF SeedOrders[i].type = "Connection" /\ SeedOrders[i].qn = S3QN
       THEN [SeedOrders[i] EXCEPT !.name = <<"S3">>]
       ELSE SeedOrders[i]]

\* The catalog of SeedOrders with the Postgres connection archived.
SeedNoPostgres ==
    [i \in 1..Len(SeedOrders) |->
       IF SeedOrders[i].type = "Connection" /\ SeedOrders[i].qn = PgQN
       THEN Archived(SeedOrders[i])
       ELSE SeedOrders[i]]

LineageSeeds == {SeedOrders, SeedDuplicates, SeedCase, SeedNoPostgres}

\* ------------------------------------------------- specification: lineage
Init ==
    /\ catalog \in LineageSeeds
    /\ csv = <<>>
    /\ run = [p \in Runs |-> IdleRun]
    /\ calls = {}
    /\ faults = {}
    /\ log = {}
    /\ derived = <<>>

Next ==
    \E p \in Runs :
      \/ StartRun(p)
      \/ GetConnection(p)
      \/ ListTables(p)
      \/ Gate(p)
      \/ NextTable(p)
      \/ CheckProcess(p)
      \/ SaveProcess(p)
      \/ ListColumns(p)
      \/ NextColumn(p)
      \/ CheckColumnProcess(p)
      \/ SaveColumnProcess(p)

Spec == Init /\ [][Next]_vars

\* ------------------------------------------------- specification: hierarchy
CsvFile(key, columns) == [key |-> key, columns |-> columns]
CsvColumn(name, dtype) == [name |-> name, dtype |-> dtype]

\* Two files: one with two columns and an index column, one without a named
\* column.
CsvOrders ==
    <<CsvFile(<<"data", "/", "orders", ".csv">>,
              <<CsvColumn(<<"Unnamed: 0">>, "int64"), CsvColumn(<<"id">>, "int64"),
                CsvColumn(<<"name">>, "object")>>),
      CsvFile(<<"empty", ".csv">>, <<CsvColumn(<<"Unnamed: 0">>, "int64")>>)>>

\* One file whose header holds the same name in two letter cases.
CsvCases ==
    <<CsvFile(<<"Users", ".csv">>,
              <<CsvColumn(<<"id">>, "int64"), CsvColumn(<<"ID">>, "category")>>)>>

CsvInputs == {CsvOrders, CsvCases, <<>>}

\* An empty catalog, and one that holds the hierarchy under names of other
\* letter case next to an archived connection.
SeedEmpty == <<>>
SeedHierarchy ==
    LET conn == <<"default/s3/", "2">> IN
    WithGuids(<<
      Archived(ConnectionEntity(AWS_CONNECTION_NAME, <<"default/s3/", "1">>)),
      ConnectionEntity(<<"S3">>, conn),
      ChildDraft("Database", <<"DB">>, conn)>>)

HierarchySeeds == {SeedEmpty, SeedHierarchy}

HInit ==
    /\ catalog \in HierarchySeeds
    /\ csv \in CsvInputs
    /\ run = [p \in Runs |-> HIdleRun]
    /\ calls = {}
    /\ faults = {}
    /\ log = {}
    /\ derived = <<>>

HNext ==
    \E p \in Runs :
      \/ HStartRun(p)
      \/ EnsureConnection(p)
      \/ SaveConnection(p)
      \/ EnsureDatabase(p)
      \/ SaveDatabase(p)
      \/ EnsureSchema(p)
      \/ SaveSchema(p)
      \/ ReadCsv(p)
      \/ EnsureTable(p)
      \/ SaveTable(p)
      \/ SaveColumns(p)
      \/ GetColumn(p)
      \/ PatchColumn(p)

SpecH == HInit /\ [][HNext]_vars

\* ------------------------------------------------- specification: two runs at once
\* Two runs of one pipeline against one catalog, each started at any time; no
\* catalog call fails, and calls, faults and log record both runs.
IsLineageRun(r) == "dict" \in DOMAIN r

RaceStart(p) ==
    /\ p <= 2
    /\ run[p].pc = "idle"
    /\ run' = [run EXCEPT ![p].pc = IF IsLineageRun(run[p]) THEN "conns"
                                    ELSE "h_connection"]
    /\ UNCHANGED <<derived, catalog, csv, calls, faults, log>>

RaceInit ==
    /\ \/ /\ catalog = SeedOrders
          /\ csv = <<>>
          /\ run = [p \in Runs |-> IdleRun]
       \/ /\ catalog = SeedEmpty
          /\ csv = CsvOrders
          /\ run = [p \in Runs |-> HIdleRun]
    /\ calls = {}
    /\ faults = {}
    /\ log = {}
    /\ derived = <<>>

RaceNext ==
    \E p \in Runs :
      \/ RaceStart(p)
      \/ GetConnection(p)
      \/ ListTables(p)
      \/ Gate(p)
      \/ NextTable(p)
      \/ CheckProcess(p)
      \/ SaveProcess(p)
      \/ ListColumns(p)
      \/ NextColumn(p)
      \/ CheckColumnProcess(p)
      \/ SaveColumnProcess(p)
      \/ EnsureConnection(p)
      \/ SaveConnection(p)
      \/ EnsureDatabase(p)
      \/ SaveDatabase(p)
      \/ EnsureSchema(p)
      \/ SaveSchema(p)
      \/ ReadCsv(p)
      \/ EnsureTable(p)
      \/ SaveTable(p)
      \/ SaveColumns(p)
      \/ GetColumn(p)
      \/ PatchColumn(p)

SpecRace == RaceInit /\ [][RaceNext]_vars

\* ------------------------------------- specification: an edge filed elsewhere
\* The catalog of SeedOrders in which the table edge Orders -> orders and its
\* column edge id -> ID already exist, filed under the Postgres connection
\* and not under the S3 connection the run files its table edges under.
TableNamed(cat, conn, name) ==
    CHOOSE e \in Range(cat) : e.type = "Table" /\ e.conn = conn /\ e.name = name
ColumnNamed(cat, table, name) ==
    CHOOSE e \in Range(cat) : e.type = "Column" /\ e.parent = table.qn /\ e.name = name

SeedMoved ==
    LET source == TableNamed(SeedOrders, PgQN, <<"Orders">>)
        target == TableNamed(SeedOrders, S3QN, <<"orders">>)
        process == ProcessDraft(source, target, PgQN)
    IN  WithGuids(SeedOrders \o
          <<process,
            ColumnProcessDraft(ColumnNamed(SeedOrders, source, <<"id">>),
                               ColumnNamed(SeedOrders, target, <<"ID">>),
                               Len(SeedOrders) + 1, process.qn)>>)

MovedInit ==
    /\ catalog = SeedMoved
    /\ csv = <<>>
    /\ run = [p \in Runs |-> IdleRun]
    /\ calls = {}
    /\ faults = {}
    /\ log = {}
    /\ derived = <<>>

SpecMoved == MovedInit /\ [][Next]_vars

\* ------------------------------------- specification: generate_process_id
\* generate_process_id() called twice on qualified names over two characters,
\* one of them the delimiter of line 128.
MaxNameLen == 3
Alphabet == {"x", "|"}
QualifiedNames == UNION {[1..n -> Alphabet] : n \in 1..MaxNameLen}

Derive ==
    /\ Len(derived) < 2
    /\ \E a, b \in QualifiedNames :
         derived' = Append(derived, [source |-> a, target |-> b,
                                     id |-> generate_process_id(a, b)])
    /\ UNCHANGED <<catalog, csv, run, calls, faults, log>>

IdInit ==
    /\ catalog = <<>>
    /\ csv = <<>>
    /\ run = [p \in Runs |-> IdleRun]
    /\ calls = {}
    /\ faults = {}
    /\ log = {}
    /\ derived = <<>>

SpecId == IdInit /\ [][Derive]_vars

\* =================================================================== claims

\* ------------------------------------------------------------------- C1
\* A run that came to its last line without a failed catalog call.
CleanlyDone(p) == run[p].pc = "done" /\ run[p].nfaults = 0

\* C1: when a lineage run follows a lineage run that ran to its end with no
\* failed catalog call, it issues no create call for a Process or a
\* ColumnProcess as long as none of its own catalog calls has failed: every
\* edge is found by its recomputed qualified name.
C1_SecondLineageRunCreatesNothing ==
    \A c \in calls :
      (/\ c.run > 1
       /\ CleanlyDone(c.run - 1)
       /\ run[c.run].nfaults = 0)
      => ~(c.op = "create" /\ c.type \in {"Process", "ColumnProcess"})

\* C1 witness: the second run has come to its end without a failure after a
\* first run that did, it has matched tables and columns, the catalog holds
\* the edges of the first run, and the second run has issued no save.
C1_Witness ==
    /\ CleanlyDone(1) /\ CleanlyDone(2)
    /\ \E m \in log : m.run = 2 /\ m.kind = "matched" /\ m.level = "column"
    /\ \E e \in Range(catalog) : e.type = "Process"
    /\ \E e \in Range(catalog) : e.type = "ColumnProcess"
    /\ calls = {}

\* ------------------------------------------------------------------- C2
\* C2: when a hierarchy run follows a hierarchy run that ran to its end with
\* no failed call, on the same CSV files, it issues no create call, for any
\* entity type, as long as none of its own calls has failed.
C2_SecondHierarchyRunCreatesNothing ==
    \A c \in calls :
      (/\ c.run > 1
       /\ CleanlyDone(c.run - 1)
       /\ run[c.run].nfaults = 0)
      => c.op # "create"

\* ------------------------------------------------------------------- C3
SameEdge(a, b) ==
    /\ a.type = b.type
    /\ a.type \in {"Process", "ColumnProcess"}
    /\ IsActive(a) /\ IsActive(b)
    /\ a.inputs = b.inputs
    /\ a.outputs = b.outputs

\* C3: whatever runs have taken place, failed searches and failed saves
\* included, the catalog holds no two active Process entities of one (input
\* table, output table) and no two active ColumnProcess entities of one
\* (input column, output column).
C3_NoDuplicateEdges ==
    \A i, j \in 1..Len(catalog) : i < j => ~SameEdge(catalog[i], catalog[j])

\* C3 witness: after a failed search a run has saved the draft of a Process
\* the catalog already held.
C3_Witness ==
    \E c \in calls :
      /\ c.type = "Process" /\ c.op = "create"
      /\ c.check = "failed" /\ c.existed /\ c.outcome = "ok"

\* ------------------------------------------------------------------- C4
HierarchyTypes == {"Connection", "Database", "Schema", "Table", "Column"}

SameNode(a, b) ==
    /\ a.type = b.type
    /\ a.type \in HierarchyTypes
    /\ IsActive(a) /\ IsActive(b)
    /\ Lower(a.name) = Lower(b.name)
    /\ a.parent = b.parent

\* C4: whatever hierarchy runs have taken place, the catalog holds at most
\* one ACTIVE node of a type, a lower-cased name and a parent qualified name.
C4_OneActiveNodePerName ==
    \A i, j \in 1..Len(catalog) : i < j => ~SameNode(catalog[i], catalog[j])

\* ------------------------------------------------------------------- C5
\* C5: no create call is issued for an entity whose existence search has
\* failed.
C5_NoCreateAfterFailedSearch ==
    \A c \in calls : c.op = "create" => c.check # "failed"

\* ------------------------------------------------------------------- C6
\* C6: every failed catalog call is raised again and ends the run; none is
\* answered with an empty or absent result the run goes on with.
C6_FailuresAreRaised ==
    \A f \in faults : f.effect = "raised" /\ run[f.run].pc \in {"crashed", "failed"}

\* ------------------------------------------------------------------- C7
\* C7: the existence search and the create are two calls.  A run that has
\* been answered "absent" issues its create even when the catalog holds the
\* entity by then, and this only happens when the entity came into the
\* catalog between the two calls, that is when another run created it.
C7_CreateOfPresentEntityOnlyByRace ==
    \A c \in calls :
      (c.op = "create" /\ c.check = "absent" /\ c.existed) => c.since

RacedOn(type) ==
    \E c, d \in calls :
      /\ c.run # d.run
      /\ c.type = type /\ d.type = type /\ c.qn = d.qn
      /\ c.op = "create" /\ d.op = "create"
      /\ c.check = "absent" /\ d.check = "absent"

\* C7 witness: two lineage runs have both been answered "absent" for one
\* Process and both have issued the create call for it.
C7_Witness == RacedOn("Process")

\* The same for two hierarchy runs and one Table.
C7_WitnessTable == RacedOn("Table")

\* ------------------------------------------------------------------- C8
SameName(a, b) == Lower(a.name) = Lower(b.name)

\* The n-th entity of a listing is the last one of its lower-cased name.
IsLast(list, n) == \A m \in (n + 1)..Len(list) : ~SameName(list[m], list[n])

\* The left dictionary of the table join, or of the column join, of run p has
\* been walked to its end.
TableJoinEnded(p) ==
    run[p].pc = "table" /\ run[p].i > Len(run[p].dict[run[p].stage])
ColumnJoinEnded(p) ==
    run[p].pc = "column" /\ run[p].j > Len(run[p].cdict[1])

LeftTables(p) == run[p].tables[run[p].stage]
RightTables(p) == run[p].tables[run[p].stage + 1]
PairOf(p) == <<run[p].left[1].guid, run[p].right[1].guid>>

\* The join of run p has processed the pair (l, e).
Paired(p, level, within, l, e) ==
    Matched(p, run[p].stage, level, within, l, e) \in log

\* The pairs the join has processed for the left key of l.
PairsOfKey(p, level, within, left, l) ==
    {m \in log : /\ m = Matched(p, run[p].stage, level, within,
                                [guid |-> m.left], [guid |-> m.right])
                 /\ \E n \in 1..Len(left) :
                      left[n].guid = m.left /\ SameName(left[n], l)}

OnePairPerKey(p, level, within, left) ==
    \A n \in 1..Len(left) :
      Cardinality(PairsOfKey(p, level, within, left, left[n])) <= 1

\* C8 as stated: when a join has ended, it has processed a pair (left,
\* right) of its two listings exactly when the two lower-cased names are
\* equal, and at most one pair for a left key.
C8_PairIffNamesEqual ==
    \A p \in Runs :
      /\ TableJoinEnded(p) =>
           /\ \A a \in 1..Len(LeftTables(p)), b \in 1..Len(RightTables(p)) :
                Paired(p, "table", <<0, 0>>, LeftTables(p)[a], RightTables(p)[b])
                  <=> SameName(LeftTables(p)[a], RightTables(p)[b])
           /\ OnePairPerKey(p, "table", <<0, 0>>, LeftTables(p))
      /\ ColumnJoinEnded(p) =>
           /\ \A a \in 1..Len(run[p].cols[1]), b \in 1..Len(run[p].cols[2]) :
                Paired(p, "column", PairOf(p), run[p].cols[1][a], run[p].cols[2][b])
                  <=> SameName(run[p].cols[1][a], run[p].cols[2][b])
           /\ OnePairPerKey(p, "column", PairOf(p), run[p].cols[1])

\* C8 as amended: when a join has ended, it has processed a pair (left,
\* right) of its two listings exactly when the two lower-cased names are
\* equal and each of the two is the last entity of that lower-cased name in
\* its listing, and at most one pair for a left key.
C8_PairIffLastOfEqualNames ==
    \A p \in Runs :
      /\ TableJoinEnded(p) =>
           /\ \A a \in 1..Len(LeftTables(p)), b \in 1..Len(RightTables(p)) :
                Paired(p, "table", <<0, 0>>, LeftTables(p)[a], RightTables(p)[b])
                  <=> /\ SameName(LeftTables(p)[a], RightTables(p)[b])
                      /\ IsLast(LeftTables(p), a)
                      /\ IsLast(RightTables(p), b)
           /\ OnePairPerKey(p, "table", <<0, 0>>, LeftTables(p))
      /\ ColumnJoinEnded(p) =>
           /\ \A a \in 1..Len(run[p].cols[1]), b \in 1..Len(run[p].cols[2]) :
                Paired(p, "column", PairOf(p), run[p].cols[1][a], run[p].cols[2][b])
                  <=> /\ SameName(run[p].cols[1][a], run[p].cols[2][b])
                      /\ IsLast(run[p].cols[1], a)
                      /\ IsLast(run[p].cols[2], b)
           /\ OnePairPerKey(p, "column", PairOf(p), run[p].cols[1])

\* C8 witness: a column join has ended in which two left columns and two
\* right columns bear one lower-cased name and one pair has been processed,
\* inside a table join whose left listing holds two tables of one name.
C8_Witness ==
    \E p \in Runs :
      /\ ColumnJoinEnded(p)
      /\ \E a, b \in 1..Len(LeftTables(p)) :
           a < b /\ SameName(LeftTables(p)[a], LeftTables(p)[b])
      /\ \E a, b \in 1..Len(run[p].cols[1]) :
           a < b /\ SameName(run[p].cols[1][a], run[p].cols[1][b])
      /\ \E a, b \in 1..Len(run[p].cols[2]) :
           /\ a < b /\ SameName(run[p].cols[2][a], run[p].cols[2][b])
           /\ \E l \in Range(run[p].cols[1]) :
                Paired(p, "column", PairOf(p), l, run[p].cols[2][b])

\* ------------------------------------------------------------------- C9
\* An unmatched line of the join names the entity.
ReportedUnmatched(p, level, within, e) ==
    \E m \in log :
      /\ m.run = p /\ m.stage = run[p].stage /\ m.level = level
      /\ m.within = within /\ m.kind = "unmatched"
      /\ e.guid \in {m.left, m.right}

\* Every key of `side` that the other side lacks has been reported, and no
\* entity of such a key is an end of a save call.
OnlyKeysReported(p, level, within, side, other) ==
    \A n \in 1..Len(side) :
      (\A e \in Range(other) : ~SameName(side[n], e)) =>
        /\ \E m \in 1..Len(side) :
             SameName(side[m], side[n]) /\ ReportedUnmatched(p, level, within, side[m])
        /\ \A c \in calls : side[n].guid \notin Range(c.inputs) \cup Range(c.outputs)

\* C9: when a join has ended, every left-only key and every right-only key
\* has been reported as unmatched, and no entity of such a key has been
\* passed to edge creation.  Stated of the runs without a failed catalog
\* call, whose listings are the catalog's.
C9_UnmatchedKeysReported ==
    \A p \in Runs :
      run[p].nfaults = 0 =>
      /\ TableJoinEnded(p) =>
           /\ OnlyKeysReported(p, "table", <<0, 0>>, LeftTables(p), RightTables(p))
           /\ OnlyKeysReported(p, "table", <<0, 0>>, RightTables(p), LeftTables(p))
      /\ ColumnJoinEnded(p) =>
           /\ OnlyKeysReported(p, "column", PairOf(p), run[p].cols[1], run[p].cols[2])
           /\ OnlyKeysReported(p, "column", PairOf(p), run[p].cols[2], run[p].cols[1])

\* ------------------------------------------------------------------- C10
\* The listings the catalog answers for a table source and for a table.
ListedTables(k) == search_tables_in_connection(catalog, ConnectionNameOf(k), "ok", "ok")
ListedColumns(t) == get_columns_for_table(catalog, t, "ok")

\* The guids of the listed entities that a later entity of the same
\* lower-cased name follows in their listing, and of the columns of such
\* tables.
Shadowed(list) == {list[n].guid : n \in {m \in 1..Len(list) : ~IsLast(list, m)}}
ShadowedGuids ==
    UNION {Shadowed(ListedTables(k))
             \cup UNION {Shadowed(ListedColumns(t)) : t \in Range(ListedTables(k))}
             \cup UNION {{c.guid : c \in Range(ListedColumns(ListedTables(k)[n]))} :
                           n \in {m \in 1..Len(ListedTables(k)) :
                                    ~IsLast(ListedTables(k), m)}}
           : k \in 1..3}

\* C10: every dictionary of a run maps a lower-cased name to the last entity
\* of that name in its listing, and no entity that a later one of the same
\* lower-cased name follows is an end of a pair or of a lineage edge.
C10_LastOfANameWins ==
    /\ \A p \in Runs : \A k \in 1..3 : \A n \in 1..Len(run[p].dict[k]) :
         \E a \in 1..Len(run[p].tables[k]) :
           /\ run[p].dict[k][n].val = run[p].tables[k][a]
           /\ run[p].dict[k][n].key = Lower(run[p].tables[k][a].name)
           /\ IsLast(run[p].tables[k], a)
    /\ \A p \in Runs : \A k \in 1..2 : \A n \in 1..Len(run[p].cdict[k]) :
         \E a \in 1..Len(run[p].cols[k]) :
           /\ run[p].cdict[k][n].val = run[p].cols[k][a]
           /\ run[p].cdict[k][n].key = Lower(run[p].cols[k][a].name)
           /\ IsLast(run[p].cols[k], a)
    /\ \A m \in log : m.kind = "matched" => {m.left, m.right} \cap ShadowedGuids = {}
    /\ \A e \in Range(catalog) :
         e.type \in {"Process", "ColumnProcess"} =>
           (Range(e.inputs) \cup Range(e.outputs)) \cap ShadowedGuids = {}

\* C10 witness: the left listing holds two tables of one lower-cased name,
\* the later one has its table edge and a column edge from the later of its
\* two columns of one name, and the run has ended.
C10_Witness ==
    /\ run[1].pc = "done"
    /\ \E a, b \in 1..Len(ListedTables(1)) :
         /\ a < b /\ SameName(ListedTables(1)[a], ListedTables(1)[b])
         /\ \E e \in Range(catalog) :
              e.type = "Process" /\ e.inputs = <<ListedTables(1)[b].guid>>
         /\ \E c, d \in 1..Len(ListedColumns(ListedTables(1)[b])) :
              /\ c < d
              /\ SameName(ListedColumns(ListedTables(1)[b])[c],
                          ListedColumns(ListedTables(1)[b])[d])
              /\ \E e \in Range(catalog) :
                   /\ e.type = "ColumnProcess"
                   /\ e.inputs = <<ListedColumns(ListedTables(1)[b])[d].guid>>

\* ------------------------------------------------------------------- C11
\* A create call for a table edge that gave set_table_lineage no guid: the
\* save failed, or it created nothing because the catalog held the edge.
FailedTableEdge(c) ==
    c.type = "Process" /\ c.op = "create" /\ (c.outcome # "ok" \/ c.existed)

ColumnSteps == {"columns", "column", "check_column_process", "save_column_process"}

\* Every pair of last entities of one lower-cased name has been processed.
AllPairsProcessed(p) ==
    \A a \in 1..Len(LeftTables(p)), b \in 1..Len(RightTables(p)) :
      (/\ SameName(LeftTables(p)[a], RightTables(p)[b])
       /\ IsLast(LeftTables(p), a) /\ IsLast(RightTables(p), b))
      => Paired(p, "table", <<0, 0>>, LeftTables(p)[a], RightTables(p)[b])

\* C11: when the table edge of a pair could not be ensured, the run lists and
\* matches no columns for that pair and issues no column edge for it, the run
\* is not ended by it, and each join of the run still processes every matched
\* table pair.
C11_FailedTableEdgeSkipsItsColumnsOnly ==
    \A c \in calls :
      FailedTableEdge(c) =>
        /\ \A m \in log :
             ~(m.run = c.run /\ m.level = "column"
                 /\ m.within = <<c.inputs[1], c.outputs[1]>>)
        /\ run[c.run].pc \in ColumnSteps =>
             PairOf(c.run) # <<c.inputs[1], c.outputs[1]>>
        /\ run[c.run].pc \notin {"aborted", "crashed", "failed", "stopped"}
        /\ TableJoinEnded(c.run) => AllPairsProcessed(c.run)

\* C11 witness: the table edge of a pair of the first stage has failed, the
\* second stage has come to its end and has processed its pair, and a column
\* edge of that second pair has been created.
C11_Witness ==
    \E c \in calls :
      /\ FailedTableEdge(c)
      /\ TableJoinEnded(c.run) /\ run[c.run].stage = 2
      /\ c.inputs[1] \in {t.guid : t \in Range(run[c.run].tables[1])}
      /\ \E m \in log :
           m.run = c.run /\ m.stage = 2 /\ m.level = "table" /\ m.kind = "matched"
      /\ \E d \in calls :
           d.run = c.run /\ d.type = "ColumnProcess" /\ d.outcome = "ok"

\* ------------------------------------------------------------------- C12
\* The column of guid c is a column of the table of guid t.
ColumnOfTable(c, t) ==
    /\ c \in 1..Len(catalog) /\ t \in 1..Len(catalog)
    /\ catalog[c].type = "Column" /\ catalog[t].type = "Table"
    /\ catalog[c].parent = catalog[t].qn

\* The catalog holds a table edge of guid g whose tables are those of the two
\* columns.
TableEdgeOver(g, inputs, outputs) ==
    /\ g \in 1..Len(catalog)
    /\ catalog[g].type = "Process" /\ IsActive(catalog[g])
    /\ ColumnOfTable(inputs[1], catalog[g].inputs[1])
    /\ ColumnOfTable(outputs[1], catalog[g].outputs[1])

\* C12: every ColumnProcess of the catalog has as its parent a Process the
\* catalog held before it, filed under that Process's qualified name, whose
\* input table is the table of its input column and whose output table is
\* the table of its output column; and every create call for a ColumnProcess
\* is for two columns of the two tables of a Process the catalog holds.
C12_ColumnEdgeUnderItsTableEdge ==
    /\ \A e \in Range(catalog) :
         e.type = "ColumnProcess" =>
           /\ TableEdgeOver(e.parentGuid, e.inputs, e.outputs)
           /\ e.parentGuid < e.guid
           /\ e.conn = catalog[e.parentGuid].qn
    /\ \A c \in calls :
         c.type = "ColumnProcess" =>
           \E g \in 1..Len(catalog) : TableEdgeOver(g, c.inputs, c.outputs)

\* C12 witness: the catalog holds a column edge under the table edge of the
\* first stage and one under the table edge of the second stage.
C12_Witness ==
    \E d, e \in Range(catalog) :
      /\ d.type = "ColumnProcess" /\ e.type = "ColumnProcess"
      /\ d.parentGuid # e.parentGuid
      /\ catalog[d.parentGuid].outputs = catalog[e.parentGuid].inputs

\* ------------------------------------------------------------------- C13
\* C13: no create call is issued for a ColumnProcess of two columns while the
\* catalog holds an active ColumnProcess of those two columns under another
\* qualified name, that is under another table edge.
C13_ColumnEdgeFoundUnderAnyTableEdge ==
    \A c \in calls :
      (c.type = "ColumnProcess" /\ c.op = "create") =>
        ~\E e \in Range(catalog) :
           /\ e.type = "ColumnProcess" /\ IsActive(e)
           /\ e.inputs = c.inputs /\ e.outputs = c.outputs
           /\ e.qn # c.qn

\* ------------------------------------------------------------------- C14
\* C14: two calls of generate_process_id on the same two names give the same
\* id, and a call on (a, b) and a call on (b, a) give different ids when a
\* and b differ.
C14_DeterministicAndOrderSensitive ==
    \A i, j \in 1..Len(derived) :
      /\ (derived[i].source = derived[j].source /\ derived[i].target = derived[j].target)
           => derived[i].id = derived[j].id
      /\ (/\ derived[i].source = derived[j].target
          /\ derived[i].target = derived[j].source
          /\ derived[i].source # derived[i].target)
           => derived[i].id # derived[j].id

\* ------------------------------------------------------------------- C15
\* C15: two calls of generate_process_id give the same id only when they are
\* calls on the same source name and the same target name.
C15_DistinctPairsDistinctIds ==
    \A i, j \in 1..Len(derived) :
      derived[i].id = derived[j].id
        => /\ derived[i].source = derived[j].source
           /\ derived[i].target = derived[j].target

\* ------------------------------------------------------------------- C16
\* C16: a run that follows a run which came to its end without a failure, on
\* the same CSV files, finds every entity in the catalog and writes none of
\* them: as long as none of its own calls has failed it issues no save call,
\* be it a create or an update, for an entity the catalog holds.
C16_ExistingEntitiesAreNotWritten ==
    \A c \in calls :
      (/\ c.run > 1
       /\ CleanlyDone(c.run - 1)
       /\ run[c.run].nfaults = 0)
      => ~c.existed

\* ------------------------------------------------------------------- C17
PatchSteps == {"h_get_column", "h_patch_column"}

\* C17: whatever a step of phase 2 answers for a column (the column is not
\* found, the fetch or the save raises, the save answers nothing), the step
\* after it is the save of that same column or the fetch of the next column
\* of the table, and phase 2 is left only after its last column, for the
\* next file or the end of the run.
C17_PatchFailureDoesNotEndPhaseTwo ==
    [][\A p \in Runs :
         run[p].pc \in PatchSteps =>
           \/ run'[p] = run[p]
           \/ /\ run[p].pc = "h_get_column"
              /\ run'[p].pc = "h_patch_column"
              /\ run'[p].c = run[p].c
           \/ /\ run[p].c < Len(run[p].names)
              /\ run'[p].pc = "h_get_column"
              /\ run'[p].c = run[p].c + 1
              /\ run'[p].names = run[p].names
              /\ run'[p].table = run[p].table
           \/ /\ run[p].c = Len(run[p].names)
              /\ run'[p].pc \in {"h_file", "done"}]_vars

\* C17 witness: a column of a file has been patched although no patch of an
\* earlier column of that file has been saved: its fetch had failed or had
\* found nothing.
C17_Witness ==
    \E c \in calls : \E f \in 1..Len(csv) :
      LET names == ColumnNames(csv[f].columns) IN
      \E a, b \in 1..Len(names) :
        /\ a < b
        /\ c.op = "update" /\ c.outcome = "ok"
        /\ Len(c.qn) > Len(names[b])
        /\ SubSeq(c.qn, Len(c.qn) - Len(names[b]) + 1, Len(c.qn)) = names[b]
        /\ ~\E d \in calls :
              /\ d.op = "update" /\ d.run = c.run
              /\ d.qn = SubSeq(c.qn, 1, Len(c.qn) - Len(names[b])) \o names[a]

\* ------------------------------------------------------------------- C18
\* The column e of the catalog is a column of the table of the CSV file f.
ColumnOfFile(e, f) ==
    /\ e.type = "Column"
    /\ \E t \in Range(catalog) :
         /\ t.type = "Table" /\ t.qn = e.parent
         /\ Lower(t.name) = Lower(TableNameOf(csv[f].key))

\* The positions of a name in a list of names.
PositionsIn(names, name) == {i \in 1..Len(names) : names[i] = name}

\* All column names of a file, the unnamed ones included.
AllNames(f) == [i \in 1..Len(csv[f].columns) |-> csv[f].columns[i].name]

\* C18 as stated: whatever runs have taken place, the order of a column of
\* the catalog is the position of its name among the columns of its CSV
\* file, counted from 1; a re-run therefore leaves it as it was.
C18_OrderIsSourcePosition ==
    \A e \in Range(catalog) : \A f \in 1..Len(csv) :
      ColumnOfFile(e, f) => e.order \in PositionsIn(AllNames(f), e.name)

\* C18 as amended: whatever runs have taken place, the order of a column of
\* the catalog is the position of its name among the columns of its CSV file
\* whose name does not start with 'Unnamed', counted from 1; a re-run
\* therefore leaves it as it was.
C18_OrderIsPositionAmongNamed ==
    \A e \in Range(catalog) : \A f \in 1..Len(csv) :
      ColumnOfFile(e, f) =>
        e.order \in PositionsIn(ColumnNames(csv[f].columns), e.name)

\* C18 witness: a second run has saved the columns of a table again, after a
\* run that came to its end without a failure, for a file that begins with
\* an unnamed column.
C18_Witness ==
    /\ CleanlyDone(1)
    /\ \E c \in calls :
         c.run = 2 /\ c.type = "Column" /\ c.op = "create" /\ c.existed
           /\ c.outcome = "ok"
    /\ \E e \in Range(catalog) : \E f \in 1..Len(csv) :
         /\ ColumnOfFile(e, f)
         /\ StartsWithUnnamed(csv[f].columns[1].name)
         /\ e.order = 1

\* ------------------------------------------------------------------- C19
\* The save answered, and its answer holds no created entity.
NothingCreated(c) ==
    c.op = "create" /\ (c.outcome = "empty" \/ (c.outcome = "ok" /\ c.existed))

\* C19: a run issues at most one create call for an entity, and a create
\* call whose answer holds no created entity gives its caller None: the run
\* goes on, or returns, as main() does on None, and is not ended by an
\* exception.
C19_OneCreateAndNoneWhenNothingCreated ==
    /\ \A c, d \in calls :
         (/\ c.op = "create" /\ d.op = "create"
          /\ c.run = d.run /\ c.type = d.type /\ c.qn = d.qn) => c = d
    /\ \A c \in calls :
         NothingCreated(c) => run[c.run].pc \notin {"failed", "crashed"}

\* ------------------------------------------------------------------- C20
\* The active nodes of a type under a parent whose lower-cased name is that
\* of `name`.
NodesNamed(type, name, parent) ==
    {e \in Range(catalog) :
       /\ e.type = type /\ IsActive(e)
       /\ Lower(e.name) = Lower(name) /\ e.parent = parent}

\* Run p of the lineage pipeline has looked up its k-th connection.
LookedUp(p, k) ==
    /\ IsLineageRun(run[p])
    /\ run[p].pc \notin ({"idle"} \cup Ended)
    /\ run[p].pc = "conns" => run[p].k > k

\* C20: a lookup answers with a node of the lower-cased name that was asked
\* for whenever the catalog holds an active one under the parent, and only
\* with such a node: a hierarchy run is about to create a node only when
\* there is none, the node it goes on with is one of them, and the
\* connection lookup of a lineage run answers with the qualified name of one
\* of them when there is one.
C20_LookupIgnoresCase ==
    \A p \in Runs :
      /\ run[p].pc = "h_save_connection" =>
           NodesNamed("Connection", AWS_CONNECTION_NAME, None) = {}
      /\ run[p].pc = "h_save_database" =>
           NodesNamed("Database", DATABASE_NAME, run[p].connQN) = {}
      /\ run[p].pc = "h_save_schema" =>
           NodesNamed("Schema", SCHEMA_NAME, run[p].dbQN) = {}
      /\ run[p].pc = "h_save_table" =>
           NodesNamed("Table", TableNameOf(csv[run[p].f].key), run[p].schemaQN) = {}
      /\ run[p].pc = "h_database" =>
           run[p].connQN \in
             {e.qn : e \in NodesNamed("Connection", AWS_CONNECTION_NAME, None)}
      /\ run[p].pc = "h_schema" =>
           run[p].dbQN \in
             {e.qn : e \in NodesNamed("Database", DATABASE_NAME, run[p].connQN)}
      /\ \A k \in 1..3 :
           (LookedUp(p, k) /\ NodesNamed("Connection", ConnectionNameOf(k), None) # {})
             => run[p].connQN[k] \in
                  {e.qn : e \in NodesNamed("Connection", ConnectionNameOf(k), None)}

\* ------------------------------------------------------------------- C21
\* Where a lineage run is before its third gate has been answered yes.
BeforeJoins == {"conns", "list", "gate"}

\* C21: a step of a lineage run that has not yet had three yes leaves the
\* catalog and the save calls as they are; the run comes to its joins only
\* by a yes at the third gate, and it is aborted only at a gate; a run that
\* was aborted takes no further step.
C21_DeclinedRunWritesNothing ==
    [][\A p \in Runs :
         /\ run[p].pc \in BeforeJoins =>
              /\ catalog' = catalog
              /\ calls' = calls
              /\ run'[p].pc \in BeforeJoins \cup {"aborted", "crashed", "table"}
              /\ run'[p].pc = "table" => (run[p].pc = "gate" /\ run[p].k = 3)
              /\ run'[p].pc = "aborted" => run[p].pc = "gate"
         /\ run[p].pc = "aborted" => run'[p] = run[p]]_vars

\* C21 witness: the first run has been aborted, over a catalog that holds
\* tables to match, and the catalog is the one it began with.
C21_Witness ==
    /\ run[1].pc = "aborted"
    /\ catalog = SeedOrders
    /\ calls = {}
    /\ \A p \in Runs : p > 1 => run[p].pc = "idle"

\* ------------------------------------------------------------------- C22
\* A batch save that created some of its columns only, under a table that
\* had no column before it.
PartialBatch(c) ==
    /\ c.op = "create" /\ c.type = "Column"
    /\ c.outcome = "partial"
    /\ ~c.existed

\* The file f is the file of the table of the batch save c.
FileOfBatch(c, f) ==
    LET name == TableNameOf(csv[f].key) IN
    /\ Len(c.qn) > Len(name)
    /\ SubSeq(c.qn, Len(c.qn) - Len(name) + 1, Len(c.qn)) = name

\* The saves of the data type of the column qn in the run p.
PatchesOf(p, qn) == {d \in calls : d.run = p /\ d.op = "update" /\ d.qn = qn}

TableOfSource(g, connection_name) ==
    /\ g \in 1..Len(catalog)
    /\ catalog[g].type = "Table"
    /\ \E k \in Range(catalog) :
         /\ k.type = "Connection" /\ IsActive(k)
         /\ k.name = connection_name
         /\ k.qn = catalog[g].conn

\* C23: every Process of the catalog has one input and one output, both
\* tables; the input is a table of Postgres and the output one of S3, or
\* the input is a table of S3 and the output one of Snowflake; and the
\* names of the two tables are equal once lower-cased.
C23_ProcessJoinsAdjacentSources ==
    \A e \in Range(catalog) :
      e.type = "Process" =>
        /\ Len(e.inputs) = 1
        /\ Len(e.outputs) = 1
        /\ \/ /\ TableOfSource(e.inputs[1], POSTGRES_CONNECTION_NAME)
              /\ TableOfSource(e.outputs[1], AWS_CONNECTION_NAME)
           \/ /\ TableOfSource(e.inputs[1], AWS_CONNECTION_NAME)
              /\ TableOfSource(e.outputs[1], SNOWFLAKE_CONNECTION_NAME)
        /\ Lower(catalog[e.inputs[1]].name) = Lower(catalog[e.outputs[1]].name)

\* C23 witness: the catalog holds a Process from Postgres to S3 and one
\* from S3 to Snowflake, the latter between tables whose names differ in
\* letter case.
C23_Witness ==
    \E a, b \in Range(catalog) :
      /\ a.type = "Process" /\ b.type = "Process"
      /\ TableOfSource(a.inputs[1], POSTGRES_CONNECTION_NAME)
      /\ TableOfSource(b.outputs[1], SNOWFLAKE_CONNECTION_NAME)
      /\ catalog[b.inputs[1]].name # catalog[b.outputs[1]].name

\* ------------------------------------------------------------------- C24
\* Either pipeline: a behaviour is one of the lineage engine over one of
\* its catalogs, or one of the hierarchy builder over one of its own.
EitherInit == Init \/ HInit

EitherNext ==
    \/ /\ \A p \in Runs : IsLineageRun(run[p])
       /\ Next
    \/ /\ \A p \in Runs : ~IsLineageRun(run[p])
       /\ HNext

SpecEither == EitherInit /\ [][EitherNext]_vars

ParentType(type) ==
    CASE type = "Database" -> "Connection"
      [] type = "Schema" -> "Database"
      [] type = "Table" -> "Schema"
      [] type = "Column" -> "Table"

\* The node e has its parent in the catalog cat.
HasParent(cat, e) ==
    e.type \in {"Database", "Schema", "Table", "Column"} =>
      \E q \in Range(cat) : q.type = ParentType(e.type) /\ q.qn = e.parent

\* Where the connection, the database or the schema is being created.
UpperSaves == {"h_save_connection", "h_save_database", "h_save_schema"}

\* C25: a step of a hierarchy run puts a node into the catalog only when
\* the catalog already holds the node's parent, so that after the step
\* every node has its parent in the catalog; a run whose save of the
\* connection, the database or the schema has created nothing ends with
\* that step, and a run that has ended takes no further step.
C25_ChildAfterParent ==
    [][/\ \A i \in (Len(catalog) + 1)..Len(catalog') : HasParent(catalog, catalog'[i])
       /\ \A e \in Range(catalog') : HasParent(catalog', e)
       /\ \A p \in Runs :
            /\ (run[p].pc \in UpperSaves /\ catalog' = catalog) =>
                 run'[p].pc \in {"stopped", "failed"}
            /\ run[p].pc \in Ended => run'[p] = run[p]
            /\ run[p].pc = "h_database" =>
                 \E q \in Range(catalog) : q.type = "Connection" /\ q.qn = run[p].connQN
            /\ run[p].pc = "h_schema" =>
                 \E q \in Range(catalog) : q.type = "Database" /\ q.qn = run[p].dbQN
            /\ run[p].pc = "h_table" =>
                 \E q \in Range(catalog) : q.type = "Schema" /\ q.qn = run[p].schemaQN]_vars

\* C25 witness: a run has created the whole chain: the catalog holds a
\* column whose table, schema, database and connection it holds too, and
\* the connection is one the run has created.
C25_Witness ==
    \E col, t, sc, db, k \in Range(catalog) :
      /\ col.type = "Column" /\ t.type = "Table" /\ sc.type = "Schema"
      /\ db.type = "Database" /\ k.type = "Connection"
      /\ col.parent = t.qn /\ t.parent = sc.qn /\ sc.parent = db.qn /\ db.parent = k.qn
      /\ \E c \in calls : c.type = "Connection" /\ c.qn = k.qn /\ c.outcome = "ok"

\* ------------------------------------------------------------------- C26
\* C26: when the batch save of a table's columns has created no column
\* (the catalog is no longer after it), and nothing has failed in the run,
\* the run does not go on to fetch or to patch a column of that table.
C26_NoPatchWhenNothingCreated ==
    [][\A p \in Runs :
         (/\ run[p].pc = "h_save_columns"
          /\ run'[p].nfaults = 0
          /\ Len(catalog') = Len(catalog))
         => run'[p].pc \notin PatchSteps]_vars

\* ------------------------------------------------------------------- C27
\* The step of the run p leaves its file for the next one, or for the end
\* of the run when the file was the last.
LeavesFile(p) ==
    IF run[p].f < Len(csv)
    THEN run'[p].pc = "h_file" /\ run'[p].f = run[p].f + 1
    ELSE run'[p].pc = "done"

\* The step has raised an exception that is not caught within the file.
Raises(p) == \E x \in faults' \ faults : x.run = p /\ x.effect = "raised"

\* C27: in a run over several files, a step at a file that raises nothing
\* and finds no named column, or whose save of the table or of the columns
\* creates nothing, leaves the file for the next one; a step at a file
\* that raises ends the run, and an ended run takes no further step.
C27_SoftFailureSkipsOnlyTheFile ==
    [][\A p \in Runs : Len(csv) > 1 =>
         /\ (run[p].pc = "h_file" /\ ~Raises(p)
             /\ ColumnNames(csv[run[p].f].columns) = <<>>) => LeavesFile(p)
         /\ (run[p].pc \in {"h_save_table", "h_save_columns"} /\ ~Raises(p)
             /\ Len(catalog') = Len(catalog)) => LeavesFile(p)
         /\ (run[p].pc \in {"h_file", "h_table", "h_save_table", "h_save_columns"}
             /\ Raises(p)) => run'[p].pc = "failed"
         /\ run[p].pc = "failed" => run'[p] = run[p]]_vars

\* ------------------------------------------------------------------- C28
\* The catalog holds no active connection of the name of the k-th source.
Missing(k) ==
    ~\E e \in Range(catalog) :
        e.type = "Connection" /\ IsActive(e) /\ e.name = ConnectionNameOf(k)

\* The table or column with the guid g is under the active connection of
\* one of the three sources.
UnderFoundConnection(g) ==
    \E k \in 1..3 : \E e \in Range(catalog) :
      /\ e.type = "Connection" /\ IsActive(e) /\ e.name = ConnectionNameOf(k)
      /\ e.qn = catalog[g].conn

\* The catalog holds the table edge from the table l to the table e.
EdgeBetween(l, e) ==
    \E x \in Range(catalog) :
      x.type = "Process" /\ x.inputs = <<l.guid>> /\ x.outputs = <<e.guid>>

\* C28: the listing of a source without an active connection is empty; no
\* pair is matched and no edge is saved with a table or a column that is
\* not under the active connection of a source; and a stage whose two
\* sources have their connections ends, when no call of the run has
\* failed, with both sources listed and the edge of every matched pair of
\* tables in the catalog.
C28_MissingConnectionEmptiesItsSource ==
    \A p \in Runs :
      /\ \A k \in 1..3 : Missing(k) => run[p].tables[k] = <<>>
      /\ \A m \in log : m.kind = "matched" =>
           UnderFoundConnection(m.left) /\ UnderFoundConnection(m.right)
      /\ \A c \in calls : c.type \in {"Process", "ColumnProcess"} =>
           /\ \A n \in 1..Len(c.inputs) : UnderFoundConnection(c.inputs[n])
           /\ \A n \in 1..Len(c.outputs) : UnderFoundConnection(c.outputs[n])
      /\ (/\ TableJoinEnded(p) /\ run[p].nfaults = 0
          /\ ~Missing(run[p].stage) /\ ~Missing(run[p].stage + 1)) =>
           /\ LeftTables(p) = search_tables_in_connection(
                                catalog, ConnectionNameOf(run[p].stage), "ok", "ok")
           /\ RightTables(p) = search_tables_in_connection(
                                 catalog, ConnectionNameOf(run[p].stage + 1), "ok", "ok")
           /\ \A a \in 1..Len(LeftTables(p)), b \in 1..Len(RightTables(p)) :
                (/\ SameName(LeftTables(p)[a], RightTables(p)[b])
                 /\ IsLast(LeftTables(p), a) /\ IsLast(RightTables(p), b))
                => EdgeBetween(LeftTables(p)[a], RightTables(p)[b])

\* C28 witness: Postgres has no active connection while its tables are in
\* the catalog; the first stage has matched nothing, and the second stage
\* has ended with an edge from S3 to Snowflake saved by the run.
C28_Witness ==
    \E p \in Runs :
      /\ Missing(1) /\ ~Missing(2) /\ ~Missing(3)
      /\ \E t \in Range(catalog) : t.type = "Table" /\ t.conn = PgQN
      /\ TableJoinEnded(p) /\ run[p].stage = 2 /\ run[p].nfaults = 0
      /\ \E c \in calls :
           /\ c.run = p /\ c.type = "Process" /\ c.outcome = "ok" /\ ~c.existed
           /\ catalog[c.inputs[1]].conn = S3QN

====
